---- MODULE Spec2Model ----
(***************************************************************************)
(* A model of utils/combine-sqm-tables.py (SqueezeMeta): main(),           *)
(* parse_table() and write_feature_dict().                                 *)
(*                                                                         *)
(* A run is the sequential execution of main(): the project loop           *)
(* (validate, create tables, discover custom methods, parse the tables,    *)
(* parse the names) followed by the emission of the combined tables.       *)
(* The inputs of a run are the command line (the project list, the         *)
(* --sqmreads flag) and the contents of the project directories.           *)
(*                                                                         *)
(* Text is modelled at the level of the fields that strip()/split('\t')    *)
(* produce: a count table is its header (the sequence of sample names)     *)
(* and its lines (feature ID followed by the values); a file name is the   *)
(* sequence of its dot-separated fields.  A feature ID is the sequence of  *)
(* its code points, so that the lexical order of sort_index() is computed. *)
(***************************************************************************)
EXTENDS Integers, Sequences, FiniteSets, TLC

\* The longest project list that is explored.
MaxProjects == 3

\* The longest project list that is explored with every combination of the
\* start-up arguments; longer lists are explored with the plain start-up.
MaxStartLen == 1

-----------------------------------------------------------------------------
(* Generic helpers for Python dicts and lists.                             *)

\* The empty dict {}.
EmptyDict == [x \in {} |-> x]

\* d[k] = v on a dict.
Put(d, k, v) == (k :> v) @@ d

\* The elements of a list.
Range(s) == {s[k] : k \in 1..Len(s)}

\* A dict whose iteration order is used by the script is the list of its
\* items <<key, value>> in insertion order.
Keys(od) == [k \in 1..Len(od) |-> od[k][1]]
Has(od, key) == \E k \in 1..Len(od) : od[k][1] = key
Get(od, key) == od[CHOOSE k \in 1..Len(od) : od[k][1] = key][2]

\* od[key] = value: a new key goes to the end, a key that is there keeps
\* its place.
Set(od, key, value) ==
    IF Has(od, key)
    THEN LET k == CHOOSE j \in 1..Len(od) : od[j][1] = key
         IN  SubSeq(od, 1, k - 1) \o <<<<key, value>>>> \o SubSeq(od, k + 1, Len(od))
    ELSE Append(od, <<key, value>>)

\* The lists that hold every element of S once.
Orders(S) ==
    {o \in [1..Cardinality(S) -> S] : \A a, b \in 1..Cardinality(S) : a # b => o[a] # o[b]}

\* s is a prefix of t.
IsPrefix(s, t) == Len(s) <= Len(t) /\ SubSeq(t, 1, Len(s)) = s

\* Python's order on str, on sequences of code points.
RECURSIVE LexLess(_, _)
LexLess(a, b) ==
    IF Len(a) = 0 THEN Len(b) > 0
    ELSE IF Len(b) = 0 THEN FALSE
    ELSE IF Head(a) # Head(b) THEN Head(a) < Head(b)
    ELSE LexLess(Tail(a), Tail(b))

\* A plausible slip: shorter IDs first, then by code point.
IndexLessByLength(a, b) ==
    Len(a) < Len(b) \/ (Len(a) = Len(b) /\ LexLess(a, b))

\* The comparison sort_index() applies to the row labels.
IndexLess(a, b) == LexLess(a, b)

\* The labels of S in ascending order.
RECURSIVE SortIndex(_)
SortIndex(S) ==
    IF S = {} THEN <<>>
    ELSE LET m == CHOOSE x \in S : \A y \in S \ {x} : IndexLess(x, y)
         IN  <<m>> \o SortIndex(S \ {m})

-----------------------------------------------------------------------------
(* The fixed names of the script.                                          *)

Ranks == <<"superkingdom", "phylum", "class", "order", "family", "genus", "species">>
Filters == <<"allfilter", "prokfilter", "nofilter">>

\* The 21 taxonomic tables, in the order main() parses and writes them.
TaxOrder ==
    [k \in 1..(Len(Ranks) * Len(Filters)) |->
        <<Ranks[((k - 1) % Len(Ranks)) + 1],
          Filters[((k - 1) \div Len(Ranks)) + 1], "abund">>]
TaxKeys == Range(TaxOrder)

FunMethods == {"KO", "COG", "PFAM"}
Metrics == {"abund", "copyNumber", "tpm"}
FunKeys == {<<m, c>> : m \in FunMethods, c \in Metrics}

\* The method names that custom-method discovery skips.
Reserved == {"KO", "COG", "PFAM", "allfilter", "prokfilter", "nofilter", "orf", "contig"}

\* The file {projName}.{method}.names.tsv.
NamesKey(method) == <<method, "names">>

\* The value fillna(0) puts in an absent cell, as to_csv prints it: the int
\* 0 in a column that holds stored (str) values, the float 0.0 in a column
\* without any stored value, which from_dict makes float64.
Zero == "0"
ZeroFloat == "0.0"

-----------------------------------------------------------------------------
(* parse_table                                                             *)

\* Lines 330-333 with the duplicate test left out: the sample's entry is
\* reset.
RECURSIVE InsertSamplesUnchecked(_, _, _)
InsertSamplesUnchecked(samples, k, d) ==
    IF k > Len(samples) THEN [dup |-> FALSE, at |-> 0, dict |-> d]
    ELSE InsertSamplesUnchecked(samples, k + 1, Put(d, samples[k], EmptyDict))

\* Lines 330-333: every sample of the header gets an empty entry; the first
\* one that is already a key stops the call.
RECURSIVE InsertSamples(_, _, _)
InsertSamples(samples, k, d) ==
    IF k > Len(samples) THEN [dup |-> FALSE, at |-> 0, dict |-> d]
    ELSE IF samples[k] \in DOMAIN d THEN [dup |-> TRUE, at |-> k, dict |-> d]
    ELSE InsertSamples(samples, k + 1, Put(d, samples[k], EmptyDict))

\* Lines 336-338: zip(samples, line[1:]) stops at the shorter of the two.
RECURSIVE InsertRow(_, _, _, _)
InsertRow(samples, line, k, d) ==
    IF k > Len(samples) \/ k + 1 > Len(line) THEN d
    ELSE InsertRow(samples, line, k + 1,
                   Put(d, samples[k], Put(d[samples[k]], line[1], line[k + 1])))

\* Lines 334-338.
RECURSIVE InsertRows(_, _, _, _)
InsertRows(samples, rows, k, d) ==
    IF k > Len(rows) THEN d
    ELSE InsertRows(samples, rows, k + 1, InsertRow(samples, rows[k], 1, d))

NoError == [kind |-> "none", path |-> <<>>, sample |-> ""]
Error(kind, path, sample) == [kind |-> kind, path |-> path, sample |-> sample]

\* parse_table(path, targetDict) where path is file `key` of the table
\* directory `dir` of project `proj`.  The result holds the dict as the call
\* leaves it, the returned samples and the exception raised, if any.
parse_table(proj, dir, key, targetDict) ==
    IF key \notin DOMAIN dir
    THEN [err |-> Error("IOError", <<proj>> \o key, ""),
          dict |-> targetDict, samples |-> <<>>]
    ELSE LET samples == dir[key].hdr
             ins == InsertSamples(samples, 1, targetDict)
         IN  IF ins.dup
             THEN [err |-> Error("DuplicateSample", <<proj>> \o key, samples[ins.at]),
                   dict |-> ins.dict, samples |-> <<>>]
             ELSE [err |-> NoError,
                   dict |-> InsertRows(samples, dir[key].rows, 1, ins.dict),
                   samples |-> samples]

-----------------------------------------------------------------------------
(* write_feature_dict                                                      *)

\* Every row label of DataFrame.from_dict(featureDict).
AllFeatures(featureDict) == UNION {DOMAIN featureDict[s] : s \in DOMAIN featureDict}

\* The row labels of the frame (line 343).
RowLabels(sampleNames, featureDict) == AllFeatures(featureDict)

\* A plausible slip: the columns come out in reverse.
SelectColumnsReversed(sampleNames) ==
    [k \in 1..Len(sampleNames) |-> sampleNames[Len(sampleNames) + 1 - k]]

\* df[sampleNames] (line 345): the columns of the result.
SelectColumns(sampleNames) == sampleNames

\* One cell after fillna(0) (line 343).
Cell(featureDict, s, f) ==
    IF f \in DOMAIN featureDict[s] THEN featureDict[s][f]
    ELSE IF DOMAIN featureDict[s] = {} THEN ZeroFloat
    ELSE Zero

\* write_feature_dict(sampleNames, featureDict, outName): the table written
\* to outName, or the KeyError of df[sampleNames].
write_feature_dict(sampleNames, featureDict) ==
    IF \E k \in 1..Len(sampleNames) : sampleNames[k] \notin DOMAIN featureDict
    THEN [err |-> "KeyError", table |-> <<>>]
    ELSE LET index == SortIndex(RowLabels(sampleNames, featureDict))
             columns == SelectColumns(sampleNames)
         IN  [err |-> "none",
              table |-> [columns |-> columns,
                         index |-> index,
                         data |-> [r \in 1..Len(index) |->
                                     [c \in 1..Len(columns) |->
                                        Cell(featureDict, columns[c], index[r])]]]]

-----------------------------------------------------------------------------
(* The project directories.                                               *)

\* Sample names; the project at position k owns the names 2k-1 and 2k.
SamplePool == <<"S1", "S2", "S3", "S4", "S5", "S6", "S7", "S8", "S9", "S10">>

\* Feature IDs "a", "ab" and "b", as code points.
fA == <<97>>
fAB == <<97, 98>>
fB == <<98>>

\* The header of a table of the project at position k.
Header(k, kind) ==
    CASE kind = "own1" -> <<SamplePool[2 * k - 1]>>
      [] kind = "own2" -> <<SamplePool[2 * k - 1], SamplePool[2 * k]>>
      [] kind = "second" -> <<SamplePool[2 * k]>>
      [] kind = "first" -> <<SamplePool[1]>>
      [] kind = "twice" -> <<SamplePool[2 * k - 1], SamplePool[2 * k - 1]>>

\* A line of a count table: the feature ID and n values.
Line(f, value, n) == <<f>> \o [j \in 1..n |-> value]

\* The lines of the count tables of a project, for a header of n samples.
\* The lines are not in sorted order, the two seeds share the feature "b",
\* and the last line of seed 2 is one value short on a wide header.
Rows(seed, n) ==
    IF seed = 1 THEN <<Line(fB, "11", n), Line(fAB, "12", n)>>
    ELSE <<Line(fA, "21", n), Line(fB, "22", IF n > 1 THEN n - 1 ELSE n)>>

\* The lines of the names table of a method.
NameLines(seed, method) ==
    LET cut(line) == IF method \in {"KO", "COG"} THEN line ELSE SubSeq(line, 1, 2)
    IN  IF seed = 1
        THEN <<cut(<<fB, "name-b-1", "path-b-1">>), cut(<<fAB, "name-ab-1", "path-ab-1">>)>>
        ELSE <<cut(<<fA, "name-a-2", "path-a-2">>), cut(<<fB, "name-b-2", "path-b-2">>)>>

\* A complete standard project whose tables are already there.
Full ==
    [valid |-> TRUE, cogBefore |-> TRUE, hasDir |-> TRUE, hdr |-> "own1",
     funs |-> FunMethods, custom |-> {}, nameMs |-> {"KO", "COG"}, seed |-> 1,
     dev |-> {}, devHdr |-> "own1"]

\* The project at position k of the list, from its description v: whether
\* the validity marker is there, whether the COG table is there before the
\* generator runs, and the table directory the script reads.  A run keeps
\* the descriptions; the directories are derived from them.
Project(k, v) ==
    [valid |-> v.valid,
     cogBefore |-> v.cogBefore,
     hasDir |-> v.hasDir,
     tables |->
        [key \in TaxKeys \cup {<<m, c>> : m \in v.funs, c \in Metrics} \cup v.custom |->
            LET hdr == Header(k, IF key \in v.dev THEN v.devHdr ELSE v.hdr)
            IN  [hdr |-> hdr, rows |-> Rows(v.seed, Len(hdr))]],
     names |-> [m \in v.nameMs |-> NameLines(v.seed, m)]]

\* Projects that differ in validity, in whether the generator has to run and
\* in which of the KO, COG and PFAM tables there are; the last one carries
\* the sample of the first position.
FlagVariants ==
    {Full,
     [Full EXCEPT !.cogBefore = FALSE, !.seed = 2],
     [Full EXCEPT !.funs = {"COG", "PFAM"}, !.nameMs = {"COG"}],
     [Full EXCEPT !.cogBefore = FALSE, !.funs = {"KO", "PFAM"}, !.nameMs = {"KO"}],
     [Full EXCEPT !.funs = {"KO", "COG"}, !.seed = 2],
     [Full EXCEPT !.valid = FALSE],
     [Full EXCEPT !.cogBefore = FALSE, !.hasDir = FALSE],
     [Full EXCEPT !.hdr = "first", !.seed = 2]}

MyMethod == "MyMethod"

\* Projects that differ in the custom method they carry and in their names
\* tables.
CustomVariants ==
    {Full,
     [Full EXCEPT !.seed = 2],
     [Full EXCEPT !.custom = {<<MyMethod, "abund">>}, !.nameMs = {"KO", "COG", MyMethod}],
     [Full EXCEPT !.custom = {<<MyMethod, "abund">>, <<MyMethod, "tpm">>},
                  !.nameMs = {"KO", "COG", MyMethod}, !.seed = 2, !.hdr = "own2"],
     [Full EXCEPT !.nameMs = {"KO", "COG", MyMethod}],
     [Full EXCEPT !.funs = {"COG", "PFAM"}, !.nameMs = {"COG"}, !.seed = 2]}

\* Projects that differ in the headers of their tables.
SampleVariants ==
    {Full,
     [Full EXCEPT !.hdr = "own2", !.seed = 2],
     [Full EXCEPT !.hdr = "first", !.seed = 2],
     [Full EXCEPT !.hdr = "twice"],
     [Full EXCEPT !.dev = {<<"KO", "abund">>}, !.devHdr = "first", !.seed = 2],
     [Full EXCEPT !.dev = {<<"COG", "tpm">>, <<"genus", "nofilter", "abund">>},
                  !.devHdr = "second"],
     [Full EXCEPT !.hdr = "own2", !.funs = {"COG", "PFAM"}, !.nameMs = {"COG"}],
     [Full EXCEPT !.custom = {<<MyMethod, "abund">>, <<MyMethod, "tpm">>},
                  !.nameMs = {"KO", "COG", MyMethod}, !.seed = 2,
                  !.dev = {<<MyMethod, "abund">>, <<MyMethod, "tpm">>},
                  !.devHdr = "first"]}

\* The directories of all the projects that are explored, by position and
\* description.
Directories ==
    [k \in 1..(Len(SamplePool) \div 2),
     v \in FlagVariants \cup CustomVariants \cup SampleVariants |-> Project(k, v)]

-----------------------------------------------------------------------------
(* The state of a run.                                                     *)

VARIABLES
    sqmreads,           \* args.sqmreads
    paths_file,         \* args.paths_file is given
    force_overwrite,    \* args.force_overwrite
    outDir,             \* args.output_dir: "absent", "exists", "denied" or "created"
    projPaths,          \* the project list, each entry the description of a project
    pc,                 \* the block of main() that runs next
    i,                  \* the position of projPath in projPaths
    err,                \* the exception that ended the run, or NoError
    sampleNames,        \* the sample registry
    taxDict,            \* all_superkingdom ... no_species, by table
    funDict,            \* KOabund ... PFAMtpm, by <<method, metric>>
    customFunMethods,   \* method -> metric -> feature dict, in insertion order
    custom_thissample,  \* method -> metric -> file of the current project, in
                        \* insertion order
    namesInfo,          \* method -> column -> feature ID -> text
    hasKEGG, hasCOG, hasPFAM,
    outputs,            \* the tables written so far, by output file
    validated,          \* the positions that passed validation
    genCalls,           \* how often call(command) ran, by position
    listed,             \* the positions whose table directory was listed
    wfdArgs, wfdResult  \* one call of write_feature_dict and its result

startVars == <<paths_file, force_overwrite, outDir>>
runVars == <<sqmreads, projPaths, pc, i, err, sampleNames, taxDict, funDict,
             customFunMethods, custom_thissample, namesInfo, hasKEGG, hasCOG,
             hasPFAM, outputs, validated, genCalls, listed>>
wfdVars == <<wfdArgs, wfdResult>>
vars == <<startVars, runVars, wfdVars>>

\* The maps of the source, by name.
all_superkingdom == taxDict[<<"superkingdom", "allfilter", "abund">>]
KOabund == funDict[<<"KO", "abund">>]
KOcopy == funDict[<<"KO", "copyNumber">>]
KOtpm == funDict[<<"KO", "tpm">>]
COGabund == funDict[<<"COG", "abund">>]
COGcopy == funDict[<<"COG", "copyNumber">>]
COGtpm == funDict[<<"COG", "tpm">>]
PFAMabund == funDict[<<"PFAM", "abund">>]
PFAMcopy == funDict[<<"PFAM", "copyNumber">>]
PFAMtpm == funDict[<<"PFAM", "tpm">>]

N == Len(projPaths)

\* The project at position k of the list.
ProjectAt(k) == Directories[k, projPaths[k]]
Running == err.kind = "none"

\* The items <<method, counts, value>> of a dict of dicts in the order of
\* `for method in d: for counts, value in d[method].items()`.
RECURSIVE InnerItems(_, _, _)
InnerItems(method, inner, k) ==
    IF k > Len(inner) THEN <<>>
    ELSE <<<<method, inner[k][1], inner[k][2]>>>> \o InnerItems(method, inner, k + 1)
RECURSIVE Items(_, _)
Items(od, k) ==
    IF k > Len(od) THEN <<>>
    ELSE InnerItems(od[k][1], od[k][2], 1) \o Items(od, k + 1)

\* listdir('{projPath}/results/tables/'): the files, each by the fields
\* between the project name and the extension.
ListDir(p) == (DOMAIN p.tables) \cup {NamesKey(m) : m \in DOMAIN p.names}

\* f.split('.') of the file of project `proj` with key `key`.
Fields(proj, key) == <<proj>> \o key \o <<"tsv">>

\* Lines 169 and 170: fields[-3] and fields[-2].
MethodOf(proj, key) == Fields(proj, key)[Len(Fields(proj, key)) - 2]
CountsOf(proj, key) == Fields(proj, key)[Len(Fields(proj, key)) - 1]

\* Lines 168-171: the files of custom annotation methods.
IsCustomFile(proj, key) ==
    /\ CountsOf(proj, key) \in {"abund", "tpm", "copyNumber"}
    /\ MethodOf(proj, key) \notin Reserved

\* The orders in which listdir() (line 167) may return the files on which
\* line 171 holds: the file system decides.  The loop skips the other files
\* of the directory wherever they come.
ListOrders(proj, p) == Orders({key \in ListDir(p) : IsCustomFile(proj, key)})

\* The command line and the output directory at the start, and the initial
\* values of lines 90-134.  projPaths is the list of the paths file when
\* there is one and that of the command line otherwise.
InitRun(reads, paths, start) ==
    /\ sqmreads = reads
    /\ paths_file = start.paths_file
    /\ force_overwrite = start.force_overwrite
    /\ outDir = start.outDir
    /\ projPaths = paths
    /\ pc = "args"
    /\ i = 1
    /\ err = NoError
    /\ sampleNames = <<>>
    /\ taxDict = [key \in TaxKeys |-> EmptyDict]
    /\ funDict = [key \in FunKeys |-> EmptyDict]
    /\ customFunMethods = <<>>
    /\ custom_thissample = <<>>
    /\ namesInfo = EmptyDict
    /\ hasKEGG = TRUE
    /\ hasCOG = TRUE
    /\ hasPFAM = ~reads
    /\ outputs = EmptyDict
    /\ validated = {}
    /\ genCalls = [k \in 1..Len(paths) |-> 0]
    /\ listed = {}

\* The run ends with exception e.
Raise(e) == err' = e

\* exit(1).
Exit == Error("SystemExit", <<>>, "")

\* Lines 66-87: without a paths file and without a path on the command line
\* the script exits; mkdir of the output directory fails when the directory
\* exists, which ends the run unless --force-overwrite is given, and any
\* other OSError is raised again.
CheckArguments ==
    /\ Running /\ pc = "args"
    /\ UNCHANGED wfdVars
    /\ IF ~paths_file /\ Len(projPaths) = 0
       THEN Raise(Exit) /\ UNCHANGED <<outDir, pc>>
       ELSE IF outDir = "denied"
       THEN Raise(Error("OSError", <<>>, "")) /\ UNCHANGED <<outDir, pc>>
       ELSE IF outDir = "exists" /\ ~force_overwrite
       THEN Raise(Exit) /\ UNCHANGED <<outDir, pc>>
       ELSE /\ outDir' = IF outDir = "absent" THEN "created" ELSE outDir
            /\ pc' = IF Len(projPaths) = 0 THEN "writeTaxonomy" ELSE "validate"
            /\ UNCHANGED err
    /\ UNCHANGED <<sqmreads, paths_file, force_overwrite, projPaths, i,
                   sampleNames, taxDict, funDict, customFunMethods,
                   custom_thissample, namesInfo, hasKEGG, hasCOG, hasPFAM,
                   outputs, validated, genCalls, listed>>

-----------------------------------------------------------------------------
(* The project loop (lines 137-254).                                       *)

\* A plausible slip: the marker file is not looked for.
IsValidAlways(p) == TRUE

\* Lines 140-143: the marker file of the mode is there.
IsValid(p) == p.valid

\* Lines 139-145.
Validate ==
    /\ Running /\ pc = "validate"
    /\ UNCHANGED <<startVars, wfdVars>>
    /\ IF IsValid(ProjectAt(i))
       THEN /\ validated' = validated \cup {i}
            /\ pc' = "create"
            /\ UNCHANGED err
       ELSE /\ Raise(Error("InvalidProject", <<i>>, ""))
            /\ UNCHANGED <<validated, pc>>
    /\ UNCHANGED <<sqmreads, projPaths, i, sampleNames, taxDict, funDict,
                   customFunMethods, custom_thissample, namesInfo, hasKEGG,
                   hasCOG, hasPFAM, outputs, genCalls, listed>>

\* A plausible slip: the generator runs whether or not the COG table exists.
NeedsTablesAlways(p) == TRUE

\* Line 148: the project's COG abundance table is not there.
NeedsTables(p) == ~p.cogBefore

\* Lines 147-163.  The directory of the entry is the one the generator
\* leaves; the script reads it only after this block.
CreateTables ==
    /\ Running /\ pc = "create"
    /\ UNCHANGED <<startVars, wfdVars>>
    /\ genCalls' = IF NeedsTables(ProjectAt(i))
                   THEN [genCalls EXCEPT ![i] = @ + 1]
                   ELSE genCalls
    /\ pc' = "discover"
    /\ UNCHANGED <<sqmreads, projPaths, i, err, sampleNames, taxDict, funDict,
                   customFunMethods, custom_thissample, namesInfo, hasKEGG,
                   hasCOG, hasPFAM, outputs, validated, listed>>

\* Lines 172-174 for file f.
CustomThisSample(thissample, method, counts, f) ==
    LET entered == IF Has(thissample, method) THEN thissample
                   ELSE Set(thissample, method, <<>>)
    IN  Set(entered, method, Set(Get(entered, method), counts, f))

\* Lines 175-178 for a file of `method` and `counts`.
RegisterCustom(registry, method, counts) ==
    LET entered == IF Has(registry, method) THEN registry
                   ELSE Set(registry, method, <<>>)
    IN  IF Has(Get(entered, method), counts) THEN entered
        ELSE Set(entered, method, Set(Get(entered, method), counts, EmptyDict))

\* Lines 167-178 for the files files[k..], all of which pass line 171.
RECURSIVE ScanFiles(_, _, _, _, _)
ScanFiles(proj, files, k, thissample, registry) ==
    IF k > Len(files) THEN [thissample |-> thissample, registry |-> registry]
    ELSE LET method == MethodOf(proj, files[k])
             counts == CountsOf(proj, files[k])
         IN  ScanFiles(proj, files, k + 1,
                       CustomThisSample(thissample, method, counts, files[k]),
                       RegisterCustom(registry, method, counts))

\* Lines 165-178.
Discover ==
    /\ Running /\ pc = "discover"
    /\ UNCHANGED <<startVars, wfdVars>>
    /\ IF ProjectAt(i).hasDir
       THEN \E files \in ListOrders(i, ProjectAt(i)) :
              LET r == ScanFiles(i, files, 1, <<>>, customFunMethods)
              IN  /\ custom_thissample' = r.thissample
                  /\ customFunMethods' = r.registry
                  /\ listed' = listed \cup {i}
                  /\ pc' = "taxonomy"
                  /\ UNCHANGED err
       ELSE /\ custom_thissample' = <<>>
            /\ Raise(Error("IOError", <<i>>, ""))
            /\ UNCHANGED <<customFunMethods, listed, pc>>
    /\ UNCHANGED <<sqmreads, projPaths, i, sampleNames, taxDict, funDict,
                   namesInfo, hasKEGG, hasCOG, hasPFAM, outputs, validated,
                   genCalls>>

\* parse_table for the files keys[k..] in turn, store[key] being the target
\* of file key; stops at the first exception.
RECURSIVE ParseTables(_, _, _, _, _)
ParseTables(proj, dir, keys, k, store) ==
    IF k > Len(keys) THEN [err |-> NoError, store |-> store, done |-> k - 1]
    ELSE LET r == parse_table(proj, dir, keys[k], store[keys[k]])
             next == Put(store, keys[k], r.dict)
         IN  IF r.err.kind # "none"
             THEN [err |-> r.err, store |-> next, done |-> k - 1]
             ELSE ParseTables(proj, dir, keys, k + 1, next)

\* Line 182: sampleNames.extend(samples).
Extend(registry, samples) == registry \o samples

\* Lines 180-205.
ParseTaxonomy ==
    /\ Running /\ pc = "taxonomy"
    /\ UNCHANGED <<startVars, wfdVars>>
    /\ LET dir == ProjectAt(i).tables
           r == ParseTables(i, dir, TaxOrder, 1, taxDict)
       IN  /\ taxDict' = r.store
           /\ sampleNames' = IF r.done >= 1
                             THEN Extend(sampleNames, dir[TaxOrder[1]].hdr)
                             ELSE sampleNames
           /\ err' = r.err
           /\ pc' = IF r.err.kind = "none" THEN "KO" ELSE pc
    /\ UNCHANGED <<sqmreads, projPaths, i, funDict, customFunMethods,
                   custom_thissample, namesInfo, hasKEGG, hasCOG, hasPFAM,
                   outputs, validated, genCalls, listed>>

\* The tables of functional method `method` that are parsed and written:
\* copyNumber and tpm only when not args.sqmreads.
MetricsOf(method) ==
    IF sqmreads /\ method # "PFAM" THEN <<"abund">>
    ELSE <<"abund", "copyNumber", "tpm">>

\* The else branches of lines 207-234 for one method.
ParseFunctional(method) ==
    LET keys == [k \in 1..Len(MetricsOf(method)) |-> <<method, MetricsOf(method)[k]>>]
        r == ParseTables(i, ProjectAt(i).tables, keys, 1, funDict)
    IN  [err |-> r.err, funDict |-> r.store]

\* A plausible slip: a project that has the table sets the flag again.
FlagAfterReset(flag, present) == present

\* Lines 207-209, 217-219, 228-230: the flag is cleared when the table is
\* missing and is left alone otherwise.
FlagAfter(flag, present) == IF present THEN flag ELSE FALSE

\* Lines 207-214.
ParseKO ==
    /\ Running /\ pc = "KO"
    /\ UNCHANGED <<startVars, wfdVars>>
    /\ LET present == <<"KO", "abund">> \in DOMAIN ProjectAt(i).tables
           r == ParseFunctional("KO")
       IN  /\ hasKEGG' = FlagAfter(hasKEGG, present)
           /\ funDict' = IF present THEN r.funDict ELSE funDict
           /\ err' = IF present THEN r.err ELSE err
           /\ pc' = IF present /\ r.err.kind # "none" THEN pc ELSE "COG"
    /\ UNCHANGED <<sqmreads, projPaths, i, sampleNames, taxDict,
                   customFunMethods, custom_thissample, namesInfo, hasCOG,
                   hasPFAM, outputs, validated, genCalls, listed>>

\* Lines 217-224.
ParseCOG ==
    /\ Running /\ pc = "COG"
    /\ UNCHANGED <<startVars, wfdVars>>
    /\ LET present == <<"COG", "abund">> \in DOMAIN ProjectAt(i).tables
           r == ParseFunctional("COG")
       IN  /\ hasCOG' = FlagAfter(hasCOG, present)
           /\ funDict' = IF present THEN r.funDict ELSE funDict
           /\ err' = IF present THEN r.err ELSE err
           /\ pc' = IF present /\ r.err.kind # "none" THEN pc ELSE "PFAM"
    /\ UNCHANGED <<sqmreads, projPaths, i, sampleNames, taxDict,
                   customFunMethods, custom_thissample, namesInfo, hasKEGG,
                   hasPFAM, outputs, validated, genCalls, listed>>

\* Lines 227-234.
ParsePFAM ==
    /\ Running /\ pc = "PFAM"
    /\ UNCHANGED <<startVars, wfdVars>>
    /\ LET present == <<"PFAM", "abund">> \in DOMAIN ProjectAt(i).tables
           r == ParseFunctional("PFAM")
       IN  IF sqmreads
           THEN /\ pc' = "custom"
                /\ UNCHANGED <<hasPFAM, funDict, err>>
           ELSE /\ hasPFAM' = FlagAfter(hasPFAM, present)
                /\ funDict' = IF present THEN r.funDict ELSE funDict
                /\ err' = IF present THEN r.err ELSE err
                /\ pc' = IF present /\ r.err.kind # "none" THEN pc ELSE "custom"
    /\ UNCHANGED <<sqmreads, projPaths, i, sampleNames, taxDict,
                   customFunMethods, custom_thissample, namesInfo, hasKEGG,
                   hasCOG, outputs, validated, genCalls, listed>>

\* Lines 236-238: parse_table for every file of custom_thissample, the
\* target being customFunMethods[method][counts].
RECURSIVE ParseCustomTables(_, _, _, _, _)
ParseCustomTables(proj, dir, items, k, registry) ==
    IF k > Len(items) THEN [err |-> NoError, registry |-> registry]
    ELSE LET method == items[k][1]
             counts == items[k][2]
             f == items[k][3]
             r == parse_table(proj, dir, f, Get(Get(registry, method), counts))
             next == Set(registry, method, Set(Get(registry, method), counts, r.dict))
         IN  IF r.err.kind # "none" THEN [err |-> r.err, registry |-> next]
             ELSE ParseCustomTables(proj, dir, items, k + 1, next)

\* Lines 236-238.
ParseCustom ==
    /\ Running /\ pc = "custom"
    /\ UNCHANGED <<startVars, wfdVars>>
    /\ LET r == ParseCustomTables(i, ProjectAt(i).tables, Items(custom_thissample, 1),
                                  1, customFunMethods)
       IN  /\ customFunMethods' = r.registry
           /\ err' = r.err
           /\ pc' = IF r.err.kind = "none" THEN "names" ELSE pc
    /\ UNCHANGED <<sqmreads, projPaths, i, sampleNames, taxDict, funDict,
                   custom_thissample, namesInfo, hasKEGG, hasCOG, hasPFAM,
                   outputs, validated, genCalls, listed>>

\* Lines 241-244 and 310-313.
AllMethods ==
    (IF hasKEGG THEN <<"KO">> ELSE <<>>) \o (IF hasCOG THEN <<"COG">> ELSE <<>>)
        \o Keys(customFunMethods)

\* A plausible slip: the text of the first project that lists the ID is kept.
SetTextIfAbsent(d, id, text) == IF id \in DOMAIN d THEN d ELSE Put(d, id, text)

\* Lines 252 and 254: the text of a feature ID is set, replacing any earlier
\* one.
SetText(d, id, text) == Put(d, id, text)

\* Lines 250-254.
RECURSIVE ParseNamesLines(_, _, _)
ParseNamesLines(lines, k, info) ==
    IF k > Len(lines) THEN info
    ELSE LET line == lines[k]
             named == [info EXCEPT !["Name"] = SetText(@, line[1], line[2])]
         IN  ParseNamesLines(lines, k + 1,
                 IF "Path" \in DOMAIN info
                 THEN [named EXCEPT !["Path"] = SetText(@, line[1], line[3])]
                 ELSE named)

\* Line 247 and line 315: the columns of a method.
NameColumns(method) == IF method \in {"KO", "COG"} THEN <<"Name", "Path">> ELSE <<"Name">>

\* Lines 245-254.
RECURSIVE ParseNamesTables(_, _, _, _, _)
ParseNamesTables(proj, names, methods, k, info) ==
    IF k > Len(methods) THEN [err |-> NoError, namesInfo |-> info]
    ELSE LET method == methods[k]
             entered == IF method \in DOMAIN info THEN info
                        ELSE Put(info, method,
                                 [c \in Range(NameColumns(method)) |-> EmptyDict])
         IN  IF method \notin DOMAIN names
             THEN [err |-> Error("IOError", <<proj>> \o NamesKey(method), ""),
                   namesInfo |-> entered]
             ELSE ParseNamesTables(proj, names, methods, k + 1,
                      [entered EXCEPT ![method] = ParseNamesLines(names[method], 1, @)])

\* Lines 240-254, and the step of the loop to the next project or to the
\* emission.
ParseNames ==
    /\ Running /\ pc = "names"
    /\ UNCHANGED <<startVars, wfdVars>>
    /\ LET r == ParseNamesTables(i, ProjectAt(i).names, AllMethods, 1, namesInfo)
       IN  /\ namesInfo' = r.namesInfo
           /\ err' = r.err
           /\ IF r.err.kind # "none" THEN UNCHANGED <<pc, i>>
              ELSE /\ i' = i + 1
                   /\ pc' = IF i + 1 > N THEN "writeTaxonomy" ELSE "validate"
    /\ UNCHANGED <<sqmreads, projPaths, sampleNames, taxDict, funDict,
                   customFunMethods, custom_thissample, hasKEGG, hasCOG,
                   hasPFAM, outputs, validated, genCalls, listed>>

-----------------------------------------------------------------------------
(* The emission (lines 259-316).                                           *)

\* write_feature_dict for the jobs [out, columns, dict] in turn; stops at the
\* first exception, leaving the files written before it.
RECURSIVE WriteTables(_, _, _)
WriteTables(jobs, k, written) ==
    IF k > Len(jobs) THEN [err |-> NoError, outputs |-> written]
    ELSE LET r == write_feature_dict(jobs[k].columns, jobs[k].dict)
         IN  IF r.err # "none"
             THEN [err |-> Error(r.err, jobs[k].out, ""), outputs |-> written]
             ELSE WriteTables(jobs, k + 1, Put(written, jobs[k].out, r.table))

Job(out, columns, dict) == [out |-> out, columns |-> columns, dict |-> dict]

\* The emission block at `here` writes `jobs` and goes on to `next`.
WriteBlock(here, jobs, next) ==
    /\ Running /\ pc = here
    /\ UNCHANGED <<startVars, wfdVars>>
    /\ LET r == WriteTables(jobs, 1, outputs)
       IN  /\ outputs' = r.outputs
           /\ err' = r.err
           /\ pc' = IF r.err.kind = "none" THEN next ELSE pc
    /\ UNCHANGED <<sqmreads, projPaths, i, sampleNames, taxDict, funDict,
                   customFunMethods, custom_thissample, namesInfo, hasKEGG,
                   hasCOG, hasPFAM, validated, genCalls, listed>>

\* Lines 262-284.
WriteTaxonomy ==
    WriteBlock("writeTaxonomy",
               [k \in 1..Len(TaxOrder) |->
                   Job(TaxOrder[k], sampleNames, taxDict[TaxOrder[k]])],
               "writeKO")

\* The jobs of one functional method.
FunJobs(method) ==
    [k \in 1..Len(MetricsOf(method)) |->
        Job(<<method, MetricsOf(method)[k]>>, sampleNames,
            funDict[<<method, MetricsOf(method)[k]>>])]

\* Lines 286-290.
WriteKO == WriteBlock("writeKO", IF hasKEGG THEN FunJobs("KO") ELSE <<>>, "writeCOG")

\* Lines 292-296.
WriteCOG == WriteBlock("writeCOG", IF hasCOG THEN FunJobs("COG") ELSE <<>>, "writePFAM")

\* Lines 298-301.
WritePFAM ==
    WriteBlock("writePFAM",
               IF ~sqmreads /\ hasPFAM THEN FunJobs("PFAM") ELSE <<>>,
               "writeCustom")

\* Line 305: the samples of the registry that are keys of d.
CustomSampleNames(d) == SelectSeq(sampleNames, LAMBDA s : s \in DOMAIN d)

\* Lines 303-306.
WriteCustom ==
    WriteBlock("writeCustom",
               LET items == Items(customFunMethods, 1)
               IN  [k \in 1..Len(items) |->
                       Job(<<items[k][1], items[k][2]>>,
                           CustomSampleNames(items[k][3]), items[k][3])],
               "writeNames")

\* Lines 314-316: the names tables, as far as namesInfo has the methods; the
\* first method it lacks is a KeyError.
RECURSIVE NamesJobs(_, _)
NamesJobs(methods, k) ==
    IF k > Len(methods) \/ methods[k] \notin DOMAIN namesInfo THEN <<>>
    ELSE <<Job(NamesKey(methods[k]), NameColumns(methods[k]), namesInfo[methods[k]])>>
            \o NamesJobs(methods, k + 1)

\* Lines 309-316.
WriteNames ==
    /\ Running /\ pc = "writeNames"
    /\ UNCHANGED <<startVars, wfdVars>>
    /\ LET jobs == NamesJobs(AllMethods, 1)
           r == WriteTables(jobs, 1, outputs)
       IN  /\ outputs' = r.outputs
           /\ err' = IF r.err.kind # "none" THEN r.err
                     ELSE IF Len(jobs) < Len(AllMethods)
                     THEN Error("KeyError", NamesKey(AllMethods[Len(jobs) + 1]), "")
                     ELSE NoError
           /\ pc' = IF err'.kind = "none" THEN "done" ELSE pc
    /\ UNCHANGED <<sqmreads, projPaths, i, sampleNames, taxDict, funDict,
                   customFunMethods, custom_thissample, namesInfo, hasKEGG,
                   hasCOG, hasPFAM, validated, genCalls, listed>>

\* One step of main().
Next ==
    \/ CheckArguments
    \/ Validate
    \/ CreateTables
    \/ Discover
    \/ ParseTaxonomy
    \/ ParseKO
    \/ ParseCOG
    \/ ParsePFAM
    \/ ParseCustom
    \/ ParseNames
    \/ WriteTaxonomy
    \/ WriteKO
    \/ WriteCOG
    \/ WritePFAM
    \/ WriteCustom
    \/ WriteNames

-----------------------------------------------------------------------------
(* The inputs that are explored.                                           *)

\* The project lists of at most MaxProjects entries described by V.
ProjectLists(V) == UNION {[1..n -> V] : n \in 0..MaxProjects}

\* The start-ups: the project list comes from a paths file or from the
\* command line; the output directory is absent, exists or cannot be made;
\* --force-overwrite is given or not.
Starts ==
    [paths_file : BOOLEAN, force_overwrite : BOOLEAN,
     outDir : {"absent", "exists", "denied"}]
PlainStart == [paths_file |-> TRUE, force_overwrite |-> FALSE, outDir |-> "absent"]
StartsFor(paths) == IF Len(paths) <= MaxStartLen THEN Starts ELSE {PlainStart}

\* The runs over the project lists described by V.
InitOver(V) ==
    \E reads \in BOOLEAN, paths \in ProjectLists(V) :
        \E start \in StartsFor(paths) : InitRun(reads, paths, start)

NoCall == [sampleNames |-> <<>>, featureDict |-> EmptyDict]
NoResult == [err |-> "pending", table |-> <<>>]

InitFlags ==
    /\ InitOver(FlagVariants)
    /\ wfdArgs = NoCall /\ wfdResult = NoResult

InitCustom ==
    /\ InitOver(CustomVariants)
    /\ wfdArgs = NoCall /\ wfdResult = NoResult

InitSamples ==
    /\ InitOver(SampleVariants)
    /\ wfdArgs = NoCall /\ wfdResult = NoResult

\* Runs over projects that differ in validity and in presence of the tables.
Spec == InitFlags /\ [][Next]_vars

\* Runs over projects that differ in custom methods and names tables.
SpecCustom == InitCustom /\ [][Next]_vars

\* Runs over projects that differ in the headers of their tables.
SpecSamples == InitSamples /\ [][Next]_vars

-----------------------------------------------------------------------------
(* write_feature_dict on its own.                                          *)

WfdSamples == {"S1", "S2", "S3"}
WfdValues == {"5", "7"}

\* The feature dicts of one sample: any part of the feature IDs, with values.
WfdSubDicts == UNION {[F -> WfdValues] : F \in SUBSET {fA, fAB, fB}}

\* Feature dicts over "S1" and "S2", one of them possibly missing.
WfdDicts ==
    UNION {[S -> WfdSubDicts] : S \in {{"S1", "S2"}, {"S1"}, {}}}

\* Column lists, among them ones that name a sample the dict lacks.
WfdOrders ==
    {<<>>, <<"S1">>, <<"S2">>, <<"S1", "S2">>, <<"S2", "S1">>, <<"S2", "S3">>}

InitWfd ==
    /\ InitRun(FALSE, <<>>, PlainStart)
    /\ \E o \in WfdOrders, d \in WfdDicts :
          wfdArgs = [sampleNames |-> o, featureDict |-> d]
    /\ wfdResult = NoResult

\* One call write_feature_dict(sampleNames, featureDict, outName).
CallWfd ==
    /\ wfdResult.err = "pending"
    /\ wfdResult' = write_feature_dict(wfdArgs.sampleNames, wfdArgs.featureDict)
    /\ UNCHANGED <<wfdArgs, startVars, runVars>>

SpecWfd == InitWfd /\ [][CallWfd]_vars

-----------------------------------------------------------------------------
(* Vocabulary of the properties.                                           *)

\* The blocks of main() in execution order.
StageOrder ==
    <<"args", "validate", "create", "discover", "taxonomy", "KO", "COG", "PFAM", "custom",
      "names", "writeTaxonomy", "writeKO", "writeCOG", "writePFAM", "writeCustom",
      "writeNames", "done">>
StageIndex(stage) == CHOOSE k \in 1..Len(StageOrder) : StageOrder[k] = stage

\* The project at position k has been through block `stage` of the loop.
Passed(k, stage) == k < i \/ (k = i /\ StageIndex(pc) > StageIndex(stage))

\* The project loop is over.
Emitting == StageIndex(pc) >= StageIndex("writeTaxonomy")

Tables(k) == ProjectAt(k).tables
HeaderOf(k, key) == Tables(k)[key].hdr
Lacks(k, T) == <<T, "abund">> \notin DOMAIN Tables(k)
FlagOf(T) == CASE T = "KO" -> hasKEGG [] T = "COG" -> hasCOG [] T = "PFAM" -> hasPFAM

\* The files of a directory that the script parses as count tables in each
\* mode, with the samples of their headers.
ReadHeaders ==
    [reads \in BOOLEAN, d \in DOMAIN Directories |->
        LET T == Directories[d].tables
            read == {key \in DOMAIN T :
                        \/ key \in TaxKeys
                        \/ /\ key \in FunKeys
                           /\ <<key[1], "abund">> \in DOMAIN T
                           /\ reads => key[2] = "abund" /\ key[1] # "PFAM"
                        \/ key \notin TaxKeys \cup FunKeys}
        IN  [key \in read |-> Range(T[key].hdr)]]
ReadHeadersOf(k) == ReadHeaders[sqmreads, <<k, projPaths[k]>>]

\* The files of project k that the script parses as count tables, and the
\* block that parses each.
ReadKeys(k) == DOMAIN ReadHeadersOf(k)
StageOfKey(key) ==
    IF key \in TaxKeys THEN "taxonomy" ELSE IF key \in FunKeys THEN key[1] ELSE "custom"

\* Two projects carry a common sample name in the same table.
Shared(j, k, key) == ReadHeadersOf(j)[key] \cap ReadHeadersOf(k)[key] # {}

\* A sample name occurs twice in a header.
HasRepeat(hdr) == \E a, b \in 1..Len(hdr) : a < b /\ hdr[a] = hdr[b]

\* No table that is read repeats a sample name, within its header or from
\* another project's table of the same kind.
NoSharedSample ==
    /\ \A k \in 1..N : \A key \in ReadKeys(k) : ~HasRepeat(HeaderOf(k, key))
    /\ \A j, k \in 1..N : j < k =>
          \A key \in ReadKeys(j) \cap ReadKeys(k) : ~Shared(j, k, key)

\* The start-up of lines 66-87 lets the run go on.
StartUsable ==
    /\ paths_file \/ N > 0
    /\ outDir \in {"absent", "created"} \/ (outDir = "exists" /\ force_overwrite)

\* Every project is valid and its table directory is there.
AllProjectsUsable == \A k \in 1..N : ProjectAt(k).valid /\ ProjectAt(k).hasDir

\* The directories all of whose tables carry the same header.
UniformDirectories ==
    {d \in DOMAIN Directories :
        LET T == Directories[d].tables
        IN  \A a \in DOMAIN T : T[a].hdr = T[CHOOSE b \in DOMAIN T : TRUE].hdr}

\* Every table of project k carries the same header.
Uniform(k) == <<k, projPaths[k]>> \in UniformDirectories

\* All the feature maps of the run, by a name.
AllDicts ==
    [key \in TaxKeys \cup FunKeys |-> IF key \in TaxKeys THEN taxDict[key] ELSE funDict[key]]

IsNamesKey(key) == Len(key) = 2 /\ key[2] = "names"
IsCustomKey(key) == Len(key) = 2 /\ key[2] # "names" /\ key[1] \notin FunMethods

-----------------------------------------------------------------------------
(* C1: duplicate samples.                                                  *)

\* A step leaves every stored (sample, feature) value of d as it was.
Kept(d, e) ==
    \A s \in DOMAIN d :
        /\ s \in DOMAIN e
        /\ \A f \in DOMAIN d[s] : f \in DOMAIN e[s] /\ e[s][f] = d[s][f]

C1_NoOverwriteStep ==
    /\ taxDict' # taxDict => \A key \in TaxKeys : Kept(taxDict[key], taxDict'[key])
    /\ funDict' # funDict => \A key \in FunKeys : Kept(funDict[key], funDict'[key])
    /\ customFunMethods' # customFunMethods =>
          \A m \in Range(Keys(customFunMethods)) :
             \A c \in Range(Keys(Get(customFunMethods, m))) :
                /\ Has(customFunMethods', m) /\ Has(Get(customFunMethods', m), c)
                /\ Kept(Get(Get(customFunMethods, m), c), Get(Get(customFunMethods', m), c))

\* The duplicate-sample error names the file being parsed and a sample of
\* its header that an earlier project's table of the same kind carries, or
\* that the header itself repeats.
C1_ErrorNamesPathAndSample ==
    err.kind = "DuplicateSample" =>
        LET k == err.path[1]
            key == Tail(err.path)
        IN  /\ k = i /\ pc = StageOfKey(key)
            /\ key \in ReadKeys(k)
            /\ err.sample \in Range(HeaderOf(k, key))
            /\ \/ \E j \in 1..(k - 1) :
                    key \in ReadKeys(j) /\ err.sample \in Range(HeaderOf(j, key))
               \/ \E a, b \in 1..Len(HeaderOf(k, key)) :
                    a < b /\ HeaderOf(k, key)[a] = err.sample
                          /\ HeaderOf(k, key)[b] = err.sample

\* No two projects both get through the block that parses a table in which
\* they share a sample name; in particular none reaches the emission.
C1_SharedSampleAborts ==
    \A k \in 1..N : \A key \in ReadKeys(k) :
        Passed(k, StageOfKey(key)) \/ Emitting =>
            \A j \in 1..(k - 1) : key \in ReadKeys(j) => ~Shared(j, k, key)

\* C1: a parse_table call whose header holds a sample that is already a key
\* of the target map ends the run with the duplicate-sample error, which
\* names the file and the sample; no stored (sample, feature) value is ever
\* overwritten; two projects whose tables share a sample name never get to
\* the emission.
C1_DuplicateSampleIsFatal ==
    /\ [](C1_ErrorNamesPathAndSample /\ C1_SharedSampleAborts)
    /\ [][C1_NoOverwriteStep]_vars

\* The second project of the list repeats a sample of the first and the run
\* has stopped on it.
C1_Witness ==
    /\ err.kind = "DuplicateSample" /\ i = 2
    /\ \E key \in ReadKeys(1) \cap ReadKeys(2) : Shared(1, 2, key)
    /\ err.sample \in DOMAIN all_superkingdom

-----------------------------------------------------------------------------
(* C2: a missing KO, COG or PFAM table.                                    *)

\* The flag of T as the claim has it: true until a project without the
\* table has been through the block that tests it.
FlagAsClaimed(T) == \A k \in 1..N : Passed(k, T) => ~Lacks(k, T)

\* The same, except that with --sqmreads the PFAM flag is false from the
\* start.
FlagAsCoded(T) == IF T = "PFAM" /\ sqmreads THEN FALSE ELSE FlagAsClaimed(T)

\* No output file of method T.
NoFileOf(T) == \A key \in DOMAIN outputs : key[1] # T

\* A missing table ends no run: a run that gets through the start-up, over
\* usable projects without repeated samples, some of which lack a KO, COG or
\* PFAM table, has no error.
C2_MissingTableNotFatal ==
    /\ \E T \in FunMethods, k \in 1..N : Lacks(k, T)
    /\ StartUsable /\ AllProjectsUsable /\ NoSharedSample
    => Running

C2_Elision == \A T \in FunMethods : (\E k \in 1..N : Lacks(k, T)) => NoFileOf(T)

\* C2 as amended: a missing KO, COG or PFAM table is not fatal, no file of
\* that method is written when some project lacks the table, and the flag
\* (which for PFAM starts false with --sqmreads and true otherwise) is
\* cleared at the first project lacking the table and never set again.
C2_CategoryElision ==
    /\ C2_MissingTableNotFatal
    /\ C2_Elision
    /\ pc # "args" => \A T \in FunMethods : FlagOf(T) = FlagAsCoded(T)

\* C2 as stated: the same with every flag starting true.
C2_AsStated ==
    /\ C2_MissingTableNotFatal
    /\ C2_Elision
    /\ pc # "args" => \A T \in FunMethods : FlagOf(T) = FlagAsClaimed(T)

\* The run is complete, the first project lacks the KO table and every later
\* one has it.
C2_Witness ==
    /\ pc = "done" /\ N >= 2
    /\ Lacks(1, "KO") /\ \A k \in 2..N : ~Lacks(k, "KO")
    /\ ~hasKEGG /\ hasCOG
    /\ <<"COG", "abund">> \in DOMAIN outputs

-----------------------------------------------------------------------------
(* C3: a custom method that only some projects have.                       *)

\* The projects that have the abundance table of MyMethod.
WithMyMethod == {k \in 1..N : <<MyMethod, "abund">> \in DOMAIN Tables(k)}

\* The other projects have no file of MyMethod at all.
OthersHaveNoFileOfMyMethod ==
    \A k \in (1..N) \ WithMyMethod :
        /\ MyMethod \notin DOMAIN ProjectAt(k).names
        /\ \A key \in DOMAIN Tables(k) : key[1] # MyMethod

\* The headers of table `key` of the projects of K among 1..n, in list order.
RECURSIVE HeadersOf(_, _, _)
HeadersOf(key, K, n) ==
    IF n = 0 THEN <<>>
    ELSE HeadersOf(key, K, n - 1) \o (IF n \in K THEN HeaderOf(n, key) ELSE <<>>)

\* C3: when some projects have the table {project}.MyMethod.abund.tsv and
\* the others do not, in whatever order, the run has no error and the output
\* holds MyMethod.abund.tsv with exactly the samples of the projects that
\* had the file as its columns.
C3_MixedCustomMethod ==
    /\ WithMyMethod # {} /\ WithMyMethod # 1..N
    /\ OthersHaveNoFileOfMyMethod
    /\ StartUsable /\ AllProjectsUsable /\ NoSharedSample
    => /\ Running
       /\ pc = "done" =>
            /\ <<MyMethod, "abund">> \in DOMAIN outputs
            /\ outputs[<<MyMethod, "abund">>].columns
                  = HeadersOf(<<MyMethod, "abund">>, WithMyMethod, N)

-----------------------------------------------------------------------------
(* C4: the sample registry and the column order.                           *)

\* The number of projects whose first table has been parsed.
RegistryCount ==
    IF Emitting THEN N
    ELSE IF Passed(i, "taxonomy") THEN i
    ELSE IF pc = "taxonomy" /\ ~Running /\ err.path # <<i>> \o TaxOrder[1] THEN i
    ELSE i - 1

C4_RegistryInEncounterOrder ==
    sampleNames = HeadersOf(TaxOrder[1], 1..N, RegistryCount)

C4_Columns ==
    \A key \in DOMAIN outputs :
        /\ key \in TaxKeys \cup FunKeys => outputs[key].columns = sampleNames
        /\ IsCustomKey(key) =>
              LET d == Get(Get(customFunMethods, key[1]), key[2])
              IN  /\ outputs[key].columns = SelectSeq(sampleNames, LAMBDA x : x \in DOMAIN d)
                  /\ DOMAIN d = UNION {Range(HeaderOf(k, key)) :
                                          k \in {j \in 1..N : key \in DOMAIN Tables(j)}}

\* C4: the registry only grows at its end and holds the samples in the order
\* of first encounter, project by project; a written standard table has the
\* registry as its columns, a written custom table the registry restricted
\* to the samples of the method's map.
C4_SampleOrder ==
    /\ [](C4_RegistryInEncounterOrder /\ C4_Columns)
    /\ [][IsPrefix(sampleNames, sampleNames')]_vars

\* A complete run over a project of two samples followed by another project,
\* with a custom table that not every project has.
C4_Witness ==
    /\ pc = "done" /\ Len(sampleNames) >= 3
    /\ \E key \in DOMAIN outputs :
          /\ IsCustomKey(key)
          /\ Len(outputs[key].columns) >= 2
          /\ Len(outputs[key].columns) < Len(sampleNames)

-----------------------------------------------------------------------------
(* C5: the dense table of write_feature_dict.                              *)

\* C5: the table write_feature_dict writes has one row for every feature ID
\* under any sample of the map and no other, in ascending lexical order, one
\* cell per row and column, the stored value where the map has one and zero
\* elsewhere.
C5_DenseSortedTable ==
    wfdResult.err = "none" =>
        LET t == wfdResult.table
            d == wfdArgs.featureDict
        IN  /\ Range(t.index) = AllFeatures(d)
            /\ \A a, b \in 1..Len(t.index) : a < b => LexLess(t.index[a], t.index[b])
            /\ t.columns = wfdArgs.sampleNames
            /\ DOMAIN t.data = 1..Len(t.index)
            /\ \A r \in 1..Len(t.index) :
                  /\ DOMAIN t.data[r] = 1..Len(t.columns)
                  /\ \A c \in 1..Len(t.columns) :
                        IF t.index[r] \in DOMAIN d[t.columns[c]]
                        THEN t.data[r][c] = d[t.columns[c]][t.index[r]]
                        ELSE t.data[r][c] \in {Zero, ZeroFloat}

\* A table of three rows of which one cell is stored and one is filled.
C5_Witness ==
    /\ wfdResult.err = "none"
    /\ Len(wfdResult.table.index) = Cardinality({fA, fAB, fB})
    /\ wfdResult.table.columns = <<"S2", "S1">>
    /\ \E r, q \in 1..Len(wfdResult.table.index) :
          /\ wfdResult.table.index[r] \notin DOMAIN wfdArgs.featureDict["S2"]
          /\ wfdResult.table.data[r][1] = "0"
          /\ wfdResult.table.data[q][1] = "7"

-----------------------------------------------------------------------------
(* C6: nothing is written before the loop is over.                         *)

\* C6: an invalid project or a duplicate sample ends the run with no output
\* table written; a table is written only once every project of the list has
\* been validated and been through the whole loop.
C6_NoOutputBeforeAllAccumulated ==
    /\ err.kind \in {"InvalidProject", "DuplicateSample"} => DOMAIN outputs = {}
    /\ (\E k \in 1..N : ~ProjectAt(k).valid) => DOMAIN outputs = {} /\ ~Emitting
    /\ ~NoSharedSample => DOMAIN outputs = {} /\ ~Emitting
    /\ (Emitting \/ DOMAIN outputs # {}) =>
          /\ validated = 1..N
          /\ \A k \in 1..N : Passed(k, "names")

\* The first project has been accumulated, the second one is invalid and
\* has ended the run.
C6_Witness ==
    /\ err.kind = "InvalidProject" /\ i = 2
    /\ DOMAIN all_superkingdom # {}
    /\ DOMAIN outputs = {}

-----------------------------------------------------------------------------
(* C7: the names tables.                                                   *)

NamesOf(k) == ProjectAt(k).names

\* The names table of method m of project k lists feature ID f.
Lists(k, m, f) ==
    m \in DOMAIN NamesOf(k) /\ \E l \in 1..Len(NamesOf(k)[m]) : NamesOf(k)[m][l][1] = f

\* The text of column c that the names table of project k gives for f.
TextGiven(k, m, f, c) ==
    LET lines == NamesOf(k)[m]
        last == CHOOSE l \in 1..Len(lines) :
                    /\ lines[l][1] = f
                    /\ \A q \in (l + 1)..Len(lines) : lines[q][1] # f
    IN  lines[last][c + 1]

\* The last project of the list whose names table of m lists f.
LastLister(m, f) ==
    CHOOSE k \in 1..N : Lists(k, m, f) /\ \A q \in (k + 1)..N : ~Lists(q, m, f)

\* The names table of m of project k is one that the loop reads: always for
\* KO and COG when their table is written, and from the first project with a
\* count table of m on for a custom method.
NamesAreRead(k, m) ==
    m \in {"KO", "COG"} \/ \E j \in 1..k : \E key \in DOMAIN Tables(j) : key[1] = m

\* C7: a written names table has the columns Name and Path for KO and COG
\* and Name alone otherwise; every row holds the texts given by the last
\* project of the list whose names table lists the feature ID; every feature
\* ID of a names table that was read has a row; there is no names table for
\* PFAM.
C7_NamesLastWriteWins ==
    /\ NamesKey("PFAM") \notin DOMAIN outputs
    /\ \A key \in DOMAIN outputs : IsNamesKey(key) =>
          LET m == key[1]
              t == outputs[key]
          IN  /\ t.columns = IF m \in {"KO", "COG"} THEN <<"Name", "Path">> ELSE <<"Name">>
              /\ \A r \in 1..Len(t.index) :
                    /\ \E k \in 1..N : Lists(k, m, t.index[r])
                    /\ \A c \in 1..Len(t.columns) :
                          t.data[r][c] =
                              TextGiven(LastLister(m, t.index[r]), m, t.index[r], c)
              /\ \A k \in 1..N : NamesAreRead(k, m) /\ m \in DOMAIN NamesOf(k) =>
                    \A l \in 1..Len(NamesOf(k)[m]) :
                          NamesOf(k)[m][l][1] \in Range(t.index)

\* The KO names are written and two projects give different names to the
\* same feature ID.
C7_Witness ==
    /\ pc = "done" /\ NamesKey("KO") \in DOMAIN outputs
    /\ \E j, k \in 1..N :
          /\ j < k /\ Lists(j, "KO", fB) /\ Lists(k, "KO", fB)
          /\ TextGiven(j, "KO", fB, 1) # TextGiven(k, "KO", fB, 1)
    /\ NamesKey(MyMethod) \in DOMAIN outputs

-----------------------------------------------------------------------------
(* C8: the table generator.                                                *)

\* The generator ran for a project in this step.
GeneratorRuns(k) == genCalls'[k] # genCalls[k]

C8_GeneratorStep ==
    \A k \in 1..N : GeneratorRuns(k) =>
        /\ k = i /\ k \in validated
        /\ ~ProjectAt(k).cogBefore
        /\ genCalls[k] = 0 /\ genCalls'[k] = genCalls[k] + 1
        /\ k \notin listed /\ k \notin listed'
        /\ ~Passed(k, "discover")
        /\ taxDict' = taxDict /\ funDict' = funDict
        /\ customFunMethods' = customFunMethods /\ sampleNames' = sampleNames

C8_GeneratorState ==
    \A k \in 1..N :
        /\ genCalls[k] <= 1
        /\ ProjectAt(k).cogBefore => genCalls[k] = 0
        /\ genCalls[k] = 1 => k \in validated
        /\ k \in listed \/ Passed(k, "discover") =>
              /\ k \in validated
              /\ genCalls[k] = IF ProjectAt(k).cogBefore THEN 0 ELSE 1
        /\ Passed(k, "taxonomy") => k \in listed

\* C8: the generator runs at most once for a project, only when the COG
\* abundance table is missing, only after the project passed validation, and
\* before the table directory is listed and any table of the project is
\* parsed; a project whose table is there never triggers it.
C8_GeneratorOncePerProject ==
    /\ []C8_GeneratorState
    /\ [][C8_GeneratorStep]_vars

\* The generator has run for the second project, whose tables have since
\* been parsed, and not for the first.
C8_Witness ==
    /\ N >= 2 /\ genCalls[1] = 0 /\ genCalls[2] = 1
    /\ Passed(2, "taxonomy") /\ Running

-----------------------------------------------------------------------------
(* C9: the registry and the keys of the standard maps.                     *)

\* Between two projects, or after the last one.
AtBoundary == Running /\ (pc = "validate" \/ Emitting)

\* Every project processed so far carries one header in all its tables.
ProcessedUniform == \A k \in 1..N : k < i => Uniform(k)

NoRepeat(seq) == ~HasRepeat(seq)

\* The registry has no repeated name and is the key set of the taxonomic
\* maps and of the maps with metrics `metrics` of the methods still flagged.
RegistryMatches(metrics(_)) ==
    /\ NoRepeat(sampleNames)
    /\ \A key \in TaxKeys : DOMAIN taxDict[key] = Range(sampleNames)
    /\ \A T \in FunMethods : FlagOf(T) =>
          \A c \in metrics(T) : DOMAIN funDict[<<T, c>>] = Range(sampleNames)

\* No column asked of a standard map is missing from it.
C9_NoMissingColumn ==
    (\A k \in 1..N : Uniform(k)) =>
        ~(err.kind = "KeyError" /\ err.path \in TaxKeys \cup FunKeys)

\* The metrics of T that the mode parses and writes.
UsedMetrics(T) == Range(MetricsOf(T))
AllMetrics(T) == Metrics

\* C9 as amended: with one header per project, between projects the registry
\* has no repeated name and equals the key set of each taxonomic map and of
\* each KO, COG and PFAM map that the mode uses (with --sqmreads only the
\* abund maps) whose flag is still true; so no column asked of a standard
\* map is missing.
C9_RegistryEqualsKeys ==
    /\ AtBoundary /\ ProcessedUniform => RegistryMatches(UsedMetrics)
    /\ C9_NoMissingColumn

\* C9 as stated: the same for all the KO, COG and PFAM maps.
C9_AsStated ==
    /\ AtBoundary /\ ProcessedUniform => RegistryMatches(AllMetrics)
    /\ C9_NoMissingColumn

\* Two projects with one header each have been processed, the second one
\* lacking the KO table.
C9_Witness ==
    /\ AtBoundary /\ ProcessedUniform /\ i >= 3
    /\ ~hasKEGG /\ hasCOG
    /\ Len(sampleNames) >= 3
    /\ DOMAIN KOabund # Range(sampleNames)

-----------------------------------------------------------------------------
(* C10: the lookup of namesInfo at emission.                               *)

\* C10: when the names tables are written, every method of allMethods is a
\* key of namesInfo, and the run does not end on a missing one.
C10_NamesInfoHasEveryMethod ==
    /\ pc = "writeNames" => \A k \in 1..Len(AllMethods) : AllMethods[k] \in DOMAIN namesInfo
    /\ ~(err.kind = "KeyError" /\ IsNamesKey(err.path))

====
